---- MODULE Spec2Model ----
\* Model of src/api/submit-form.js: the AirTable submission proxy
\* (submitToAirTable).  Every request runs the handler's linear pipeline:
\* preflight, method gate, body read, credential check, payload mapping,
\* empty-value filter, one outbound fetch, response mapping, top-level catch.
EXTENDS Integers, Sequences, FiniteSets, TLC

\* Number of request slots served by the hosting runtime.
NumReq == 2
Reqs == 1..NumReq

-----------------------------------------------------------------------------
\* JavaScript values.  A scalar is a record of its type tag and its printed
\* value, so that values of different JS types can be compared.

Undefined == [t |-> "undefined", v |-> ""]
Null == [t |-> "null", v |-> ""]
Str(s) == [t |-> "string", v |-> s]
Bool(b) == [t |-> "boolean", v |-> IF b THEN "true" ELSE "false"]
Num(n) == [t |-> "number", v |-> n]

\* typeof value === 'boolean'
TypeofBoolean(x) == x.t = "boolean"

\* JS truthiness (ToBoolean) on the scalars above
Truthy(x) ==
    \/ x.t = "boolean" /\ x.v = "true"
    \/ x.t = "string" /\ x.v # ""
    \/ x.t = "number" /\ x.v # "0"

\* a || b
Or(a, b) == IF Truthy(a) THEN a ELSE b

\* String(x) as used by template literals and new Error(x)
JSString(x) == IF x.t \in {"undefined", "null"} THEN x.t ELSE x.v

-----------------------------------------------------------------------------
\* Field names.

\* fields copied verbatim from the form data
VerbatimKeys ==
    {"first_name", "last_name", "email", "phone", "company_name",
     "customer_type", "consent_checkbox", "direction",
     "shipping_payment", "local_delivery", "needs_port_delivery",
     "delivery_address", "shipment_method", "container_type",
     "air_weight_category", "cargo_type", "cargo_details",
     "other_cargo_description", "personal_item_condition",
     "packing_info_combined", "session_id"}

ImportKeys ==
    {"goods_location", "arrival_method", "arrival_timeline",
     "customs_code_status", "customs_code_number"}

ExportKeys == {"export_service_needed", "destination_country"}

BoolDefaultKeys == {"personal_item_mixed", "requires_temperature_control"}

TrackingKeys ==
    {"reminder_sent", "follow_up_sent", "sales_manager_notified",
     "email_sequence_stage"}

\* sub-keys of formData.document_status
DocKeys ==
    {"air_waybill", "bill_of_lading", "courier_receipt",
     "commercial_invoice", "packing_list", "export_declaration", "msds"}

\* outbound key of each document_status sub-key
DocStatusKey(d) ==
    CASE d = "air_waybill" -> "air_waybill_status"
      [] d = "bill_of_lading" -> "bill_of_lading_status"
      [] d = "courier_receipt" -> "courier_receipt_status"
      [] d = "commercial_invoice" -> "commercial_invoice_status"
      [] d = "packing_list" -> "packing_list_status"
      [] d = "export_declaration" -> "export_declaration_status"
      [] d = "msds" -> "msds_status"

DocStatusKeys == {DocStatusKey(d) : d \in DocKeys}

DocKeyOf(k) == CHOOSE d \in DocKeys : DocStatusKey(d) = k

\* scalar properties a request body may carry
InKeys ==
    VerbatimKeys \cup ImportKeys \cup ExportKeys \cup BoolDefaultKeys
        \cup TrackingKeys \cup {"status", "airtable_record_id"}

-----------------------------------------------------------------------------
\* Request bodies (req.body).  kind is the JS kind of the body itself; f holds
\* the scalar properties of an object body, ds its document_status property.

NoDocStatus == [kind |-> "undefined", sub |-> [d \in DocKeys |-> Undefined]]

EmptyFields == [k \in InKeys |-> Undefined]

ObjectBody(f, ds) == [kind |-> "object", f |-> f, ds |-> ds]

\* a body that is not an object: undefined, null, or a primitive string
NonObjectBody(kind) == [kind |-> kind, f |-> EmptyFields, ds |-> NoDocStatus]

\* formData.<k>; only evaluated on a body that is neither undefined nor null
Get(formData, k) == IF formData.kind = "object" THEN formData.f[k] ELSE Undefined

\* formData.document_status?.<d>
GetDoc(formData, d) ==
    IF formData.kind = "object" /\ formData.ds.kind = "object"
    THEN formData.ds.sub[d]
    ELSE Undefined

\* reading a property of undefined or null throws a TypeError
PropertyReadThrows(formData) == formData.kind \in {"undefined", "null"}

\* message of the TypeError raised by reading formData.airtable_record_id
BodyTypeErrorMessage(formData) ==
    IF formData.kind = "undefined"
    THEN "Cannot read properties of undefined (reading 'airtable_record_id')"
    ELSE "Cannot read properties of null (reading 'airtable_record_id')"

-----------------------------------------------------------------------------
\* Payload mapping and filtering.

\* the import spread guarded by a direction being given at all
SpreadImportAnyDirection(formData) == Truthy(Get(formData, "direction"))

\* formData.direction === 'import'
SpreadImport(formData) == Get(formData, "direction") = Str("import")

\* formData.direction === 'export'
SpreadExport(formData) == Get(formData, "direction") = Str("export")

\* the keys of the rawPayload object literal
RawKeys(formData) ==
    VerbatimKeys
        \cup (IF SpreadImport(formData) THEN ImportKeys ELSE {})
        \cup (IF SpreadExport(formData) THEN ExportKeys ELSE {})
        \cup BoolDefaultKeys \cup DocStatusKeys \cup {"status"} \cup TrackingKeys

\* the value the rawPayload literal gives key k
RawValue(formData, k) ==
    CASE k \in VerbatimKeys \cup ImportKeys \cup ExportKeys -> Get(formData, k)
      [] k \in BoolDefaultKeys -> Or(Get(formData, k), Bool(FALSE))
      [] k \in DocStatusKeys -> GetDoc(formData, DocKeyOf(k))
      [] k = "status" -> Or(Get(formData, "status"), Str("completed"))
      [] k \in {"reminder_sent", "follow_up_sent", "sales_manager_notified"} ->
            Bool(FALSE)
      [] k = "email_sequence_stage" -> Str("none")

RawPayload(formData) == [k \in RawKeys(formData) |-> RawValue(formData, k)]

\* the filter without its empty-string test
KeepNonNullish(value) ==
    TypeofBoolean(value) \/ (value # Undefined /\ value # Null)

\* the filter condition of the cleaning loop
Keep(value) ==
    TypeofBoolean(value)
        \/ (value # Str("") /\ value # Undefined /\ value # Null)

CleanedFields(rawPayload) ==
    [k \in {j \in DOMAIN rawPayload : Keep(rawPayload[j])} |-> rawPayload[k]]

-----------------------------------------------------------------------------
\* Dispatch.

AIRTABLE_TABLE_NAME ==
    <<"F", "o", "r", "m", " ", "S", "u", "b", "m", "i", "s", "s", "i", "o", "n", "s">>

DefaultBaseId == Str("appTll6JoqW04YvJs")

\* characters encodeURIComponent leaves alone
Unreserved ==
    {"A", "B", "C", "D", "E", "F", "G", "H", "I", "J", "K", "L", "M", "N", "O",
     "P", "Q", "R", "S", "T", "U", "V", "W", "X", "Y", "Z",
     "a", "b", "c", "d", "e", "f", "g", "h", "i", "j", "k", "l", "m", "n", "o",
     "p", "q", "r", "s", "t", "u", "v", "w", "x", "y", "z",
     "0", "1", "2", "3", "4", "5", "6", "7", "8", "9",
     "-", "_", ".", "!", "~", "*", "'", "(", ")"}

PercentEncode(c) ==
    CASE c = " " -> "%20"
      [] c = "/" -> "%2F"
      [] c = "?" -> "%3F"
      [] c = "#" -> "%23"
      [] c = "&" -> "%26"
      [] c = "%" -> "%25"

\* encodeURIComponent over a string given as its characters
EncodeURIComponent(chars) ==
    [i \in 1..Len(chars) |->
        IF chars[i] \in Unreserved THEN chars[i] ELSE PercentEncode(chars[i])]

\* isUpdate testing only that an identifier was supplied
IsUpdateWhenSupplied(recordId) == recordId # Undefined /\ recordId # Null

\* const isUpdate = recordId && recordId !== ''
IsUpdate(recordId) == Truthy(recordId) /\ recordId # Str("")

\* the airtableUrl template literals, as the pieces they concatenate
AirtableUrl(baseId, recordId) ==
    <<"https://api.airtable.com/v0/", JSString(baseId), "/">>
        \o EncodeURIComponent(AIRTABLE_TABLE_NAME)
        \o (IF IsUpdate(recordId) THEN <<"/", JSString(recordId)>> ELSE <<>>)

\* JSON.stringify of an object of scalars, as the object the receiver parses:
\* properties whose value is undefined are left out
JsonStringify(object) ==
    [k \in {j \in DOMAIN object : object[j] # Undefined} |-> object[k]]

\* the argument of fetch
OutboundCall(environment, formData) ==
    LET recordId == Get(formData, "airtable_record_id")
        baseId == Or(environment.AIRTABLE_BASE_ID, DefaultBaseId)
    IN  [url |-> AirtableUrl(baseId, recordId),
         method |-> IF IsUpdate(recordId) THEN "PATCH" ELSE "POST",
         authorization |-> <<"Bearer ", JSString(environment.AIRTABLE_API_KEY)>>,
         contentType |-> "application/json",
         body |-> [fields |-> JsonStringify(CleanedFields(RawPayload(formData)))]]

-----------------------------------------------------------------------------
\* Responses of the relay.

CorsHeaders ==
    [AccessControlAllowOrigin |-> "*",
     AccessControlAllowMethods |-> "POST, PATCH, OPTIONS",
     AccessControlAllowHeaders |-> "Content-Type"]

\* res.status(code).end()
EndResponse(code) ==
    [status |-> code, headers |-> CorsHeaders, kind |-> "empty",
     success |-> Undefined, error |-> Undefined, recordId |-> Undefined,
     message |-> Undefined]

\* res.status(code).json({success: false, error})
ErrorResponse(code, error) ==
    [status |-> code, headers |-> CorsHeaders, kind |-> "json",
     success |-> Bool(FALSE), error |-> Str(error), recordId |-> Undefined,
     message |-> Undefined]

\* the catch block: error.message || 'Internal server error'
CatchResponse(message) ==
    ErrorResponse(500, JSString(Or(Str(message), Str("Internal server error"))))

\* the try block opened after the body has been read
InTryAfterBodyRead(site) ==
    site \in {"credential", "fetch", "errorJson", "upstreamError",
              "resultJson", "resultId"}

\* the statements whose exceptions the try block covers
InTry(site) ==
    site \in {"readBody", "credential", "fetch", "errorJson", "upstreamError",
              "resultJson", "resultId"}

\* the preflight test against a lower-case method name
IsPreflightLowerCase(method) == method = "options"

\* req.method === 'OPTIONS'
IsPreflight(method) == method = "OPTIONS"

\* the method gate as a deny-list of GET
MethodAllowedUnlessGet(method) == method # "GET"

\* the negation of: req.method !== 'POST' && req.method !== 'PATCH'
MethodAllowed(method) == method = "POST" \/ method = "PATCH"

\* the credential check testing only for an unset variable
KeyMissingWhenUnset(key) == key = Undefined

\* !AIRTABLE_API_KEY
KeyMissing(key) == ~Truthy(key)

-----------------------------------------------------------------------------
\* Upstream (AirTable) results.

NoError == [kind |-> "undefined", message |-> Undefined]

\* the parsed JSON body of an upstream response; parse = "error" when
\* response.json() rejects
UpBody(parse, id, error) == [parse |-> parse, id |-> id, error |-> error]

NoBody == UpBody("none", Undefined, NoError)

\* success taken to be status 200 only
ResponseOkOnly200(status) == status = 200

\* response.ok
ResponseOk(status) == status \in 200..299

SyntaxErrorMessage == "Unexpected token < in JSON at position 0"

\* errorData.error?.message
ErrorDataMessage(errorData) ==
    IF errorData.parse = "object" /\ errorData.error.kind = "object"
    THEN errorData.error.message
    ELSE Undefined

\* new Error(errorData.error?.message || 'Failed to submit to AirTable').message
UpstreamErrorMessage(errorData) ==
    JSString(Or(ErrorDataMessage(errorData), Str("Failed to submit to AirTable")))

\* result.id, for a result that is neither null nor undefined
ResultId(result) == IF result.parse = "object" THEN result.id ELSE Undefined

\* res.status(200).json({success: true, recordId: result.id, message})
SuccessResponse(result) ==
    [status |-> 200, headers |-> CorsHeaders, kind |-> "json",
     success |-> Bool(TRUE), error |-> Undefined, recordId |-> ResultId(result),
     message |-> Str("Form submitted successfully")]

-----------------------------------------------------------------------------
\* Inputs.

Methods == {"OPTIONS", "POST", "PATCH", "GET", "DELETE"}

\* values a body property may carry besides being absent
Values == {Null, Str(""), Str("x"), Bool(TRUE), Bool(FALSE), Num("0")}

Directions == {Undefined, Str("import"), Str("export"), Str("IMPORT")}

RecordIds == {Undefined, Null, Str(""), Str("rec1")}

BaseFields(d, rid) ==
    [EmptyFields EXCEPT !["direction"] = d, !["airtable_record_id"] = rid]

\* document_status: absent, null, a string, or an object with at most one entry
DocStatuses ==
    {[kind |-> kd, sub |-> [d \in DocKeys |-> Undefined]] :
        kd \in {"null", "string", "object"}}
    \cup {[kind |-> "object",
           sub |-> [[d \in DocKeys |-> Undefined] EXCEPT ![e] = v]] :
            e \in DocKeys, v \in Values}

\* bodies: not an object, or an object with a direction, a record identifier
\* and at most one further property
Bodies ==
    {NonObjectBody(kd) : kd \in {"undefined", "null", "string"}}
    \cup {ObjectBody(BaseFields(d, rid), NoDocStatus) :
            d \in Directions, rid \in RecordIds}
    \cup {ObjectBody([BaseFields(d, rid) EXCEPT ![k] = v], NoDocStatus) :
            d \in Directions, rid \in RecordIds,
            k \in InKeys \ {"direction", "airtable_record_id"}, v \in Values}
    \cup {ObjectBody(BaseFields(d, rid), ds) :
            d \in Directions, rid \in RecordIds, ds \in DocStatuses}

Requests == [method : Methods, body : Bodies]

\* a handful of bodies for the workloads that vary the upstream instead
FewBodies ==
    {NonObjectBody("undefined"),
     ObjectBody([BaseFields(Str("import"), Str("recA"))
                    EXCEPT !["goods_location"] = Str("port"),
                           !["first_name"] = Str("Ann")], NoDocStatus),
     ObjectBody([BaseFields(Str("export"), Undefined)
                    EXCEPT !["destination_country"] = Str("NZ"),
                           !["first_name"] = Str("Bob")], NoDocStatus)}

FewRequests == [method : {"OPTIONS", "POST", "PATCH", "GET"}, body : FewBodies]

Environments ==
    [AIRTABLE_API_KEY : {Undefined, Str(""), Str("keyXYZ")},
     AIRTABLE_BASE_ID : {Undefined, Str("appCustom")}]

\* upstream HTTP statuses
Statuses == {200, 201, 404, 422, 500}
FewStatuses == {200, 422}

\* upstream response bodies
UpBodies ==
    {UpBody("error", Undefined, NoError),
     UpBody("null", Undefined, NoError),
     UpBody("string", Undefined, NoError),
     UpBody("object", Undefined, NoError),
     UpBody("object", Str("rec123"), NoError),
     UpBody("object", Str("rec456"), NoError),
     UpBody("object", Undefined, [kind |-> "null", message |-> Undefined]),
     UpBody("object", Undefined, [kind |-> "string", message |-> Undefined]),
     UpBody("object", Undefined, [kind |-> "object", message |-> Undefined]),
     UpBody("object", Undefined, [kind |-> "object", message |-> Str("")]),
     UpBody("object", Undefined,
            [kind |-> "object", message |-> Str("Invalid field")])}

FewUpBodies ==
    {UpBody("error", Undefined, NoError),
     UpBody("object", Str("rec123"), NoError),
     UpBody("object", Str("rec456"), NoError),
     UpBody("object", Undefined,
            [kind |-> "object", message |-> Str("Invalid field")])}

-----------------------------------------------------------------------------
\* State.

VARIABLES
    env,        \* process.env
    pc,         \* per request: where the handler is
    req,        \* per request: the inbound request
    touched,    \* per request: what the handler has read (body, credential)
    calls,      \* per request: the fetch calls issued
    upstream,   \* per request: the settled result of its fetch
    thrown,     \* per request: the message of the error raised, "" when none
    resp        \* per request: the responses written to res

vars == <<env, pc, req, touched, calls, upstream, thrown, resp>>

NoRequest == [method |-> "", body |-> NonObjectBody("undefined")]

NoUpstream == [state |-> "none", status |-> 0, body |-> NoBody]

Init ==
    /\ env \in Environments
    /\ pc = [r \in Reqs |-> "idle"]
    /\ req = [r \in Reqs |-> NoRequest]
    /\ touched = [r \in Reqs |-> {}]
    /\ calls = [r \in Reqs |-> <<>>]
    /\ upstream = [r \in Reqs |-> NoUpstream]
    /\ thrown = [r \in Reqs |-> ""]
    /\ resp = [r \in Reqs |-> <<>>]

\* return res.status(..)...
Respond(r, response) ==
    /\ resp' = [resp EXCEPT ![r] = Append(@, response)]
    /\ pc' = [pc EXCEPT ![r] = "done"]

\* an exception raised at the given statement: caught by the catch block when
\* the try covers it, rejecting the handler's promise otherwise
Throw(r, site, message) ==
    /\ thrown' = [thrown EXCEPT ![r] = message]
    /\ IF InTry(site)
       THEN Respond(r, CatchResponse(message))
       ELSE /\ pc' = [pc EXCEPT ![r] = "escaped"]
            /\ UNCHANGED resp

\* the handler from its entry to its first await (or to its response)
submitToAirTable(r, request) ==
    /\ pc[r] = "idle"
    /\ req' = [req EXCEPT ![r] = request]
    /\ UNCHANGED <<env, upstream>>
    /\ IF IsPreflight(request.method)
       THEN /\ Respond(r, EndResponse(200))
            /\ UNCHANGED <<touched, calls, thrown>>
       ELSE IF ~MethodAllowed(request.method)
       THEN /\ Respond(r, ErrorResponse(405, "Method not allowed"))
            /\ UNCHANGED <<touched, calls, thrown>>
       ELSE IF PropertyReadThrows(request.body)
       THEN /\ touched' = [touched EXCEPT ![r] = {"body"}]
            /\ Throw(r, "readBody", BodyTypeErrorMessage(request.body))
            /\ UNCHANGED calls
       ELSE IF KeyMissing(env.AIRTABLE_API_KEY)
       THEN /\ touched' = [touched EXCEPT ![r] = {"body", "credential"}]
            /\ Throw(r, "credential", "AirTable API key not configured")
            /\ UNCHANGED calls
       ELSE /\ touched' = [touched EXCEPT ![r] = {"body", "credential"}]
            /\ calls' = [calls EXCEPT ![r] = Append(@, OutboundCall(env, request.body))]
            /\ pc' = [pc EXCEPT ![r] = "awaitFetch"]
            /\ UNCHANGED <<thrown, resp>>

\* the fetch result kept in one variable shared by all requests: the
\* continuation sees the result that settled for another request, if any
SharedUpstream(r) ==
    IF \E q \in Reqs \ {r} : upstream[q].body.parse # "none"
    THEN upstream[CHOOSE q \in Reqs \ {r} : upstream[q].body.parse # "none"]
    ELSE upstream[r]

\* the upstream result the continuation of request r works on
OwnUpstream(r) == upstream[r]

\* await fetch(..) settles: it rejects, or resolves with a response whose
\* status decides which body read follows
FetchSettles(r, rejected, status) ==
    /\ pc[r] = "awaitFetch"
    /\ UNCHANGED <<env, req, touched, calls>>
    /\ IF rejected
       THEN /\ upstream' = [upstream EXCEPT ![r] = [NoUpstream EXCEPT !.state = "rejected"]]
            /\ Throw(r, "fetch", "fetch failed")
       ELSE /\ upstream' = [upstream EXCEPT ![r] =
                                [state |-> "responded", status |-> status, body |-> NoBody]]
            /\ pc' = [pc EXCEPT ![r] = "awaitJson"]
            /\ UNCHANGED <<thrown, resp>>

\* await response.json() settles, and the handler runs to its response
JsonSettles(r, body) ==
    /\ pc[r] = "awaitJson"
    /\ UNCHANGED <<env, req, touched, calls>>
    /\ upstream' = [upstream EXCEPT ![r].body = body]
    /\ LET response == OwnUpstream(r)'
       IN  IF ~ResponseOk(response.status)
           THEN IF response.body.parse = "error"
                THEN Throw(r, "errorJson", SyntaxErrorMessage)
                ELSE IF response.body.parse = "null"
                THEN Throw(r, "upstreamError",
                           "Cannot read properties of null (reading 'error')")
                ELSE Throw(r, "upstreamError", UpstreamErrorMessage(response.body))
           ELSE IF response.body.parse = "error"
                THEN Throw(r, "resultJson", SyntaxErrorMessage)
                ELSE IF response.body.parse = "null"
                THEN Throw(r, "resultId",
                           "Cannot read properties of null (reading 'id')")
                ELSE /\ Respond(r, SuccessResponse(response.body))
                     /\ UNCHANGED thrown

-----------------------------------------------------------------------------
\* Workloads.

\* the request slot a one-request workload uses
First(r) == \A q \in Reqs : r <= q

\* the host invokes the handler for one request, alone
ServeAlone(requests) ==
    \E r \in Reqs :
        /\ First(r)
        /\ pc[r] = "idle"
        /\ \E request \in requests : submitToAirTable(r, request)

\* the host invokes the handler for a request, whatever else is in flight
Serve(requests) ==
    \E r \in Reqs :
        /\ pc[r] = "idle"
        /\ \E request \in requests : submitToAirTable(r, request)

\* the fetch of some request settles
FetchResult(statuses) ==
    \E r \in Reqs, rejected \in BOOLEAN, status \in statuses :
        FetchSettles(r, rejected, status)

\* the body read of some request settles
JsonResult(bodies) == \E r \in Reqs, body \in bodies : JsonSettles(r, body)

\* one request in isolation, over every body; few upstream results
Next == ServeAlone(Requests) \/ FetchResult(FewStatuses) \/ JsonResult(FewUpBodies)

Spec == Init /\ [][Next]_vars

\* one request in isolation, few bodies; every upstream result
NextUp == ServeAlone(FewRequests) \/ FetchResult(Statuses) \/ JsonResult(UpBodies)

SpecUp == Init /\ [][NextUp]_vars

\* concurrent requests, interleaved at their awaits
NextConc == Serve(FewRequests) \/ FetchResult(FewStatuses) \/ JsonResult(FewUpBodies)

SpecConc == Init /\ [][NextConc]_vars

-----------------------------------------------------------------------------
\* Vocabulary of the properties.

Started(r) == pc[r] # "idle"

Accepted(r) == req[r].method \in {"POST", "PATCH"}

KeyConfigured == env.AIRTABLE_API_KEY.t = "string" /\ env.AIRTABLE_API_KEY.v # ""

BodyReadable(r) == req[r].body.kind \notin {"undefined", "null"}

\* the fields of the first outbound call of request r
SentFields(r) == calls[r][1].body.fields

\* the inbound value behind outbound key k
InboundValue(formData, k) ==
    IF k \in DocStatusKeys THEN GetDoc(formData, DocKeyOf(k)) ELSE Get(formData, k)

Empty(value) == value \in {Str(""), Undefined, Null}

\* the collection URL, written out
CollectionUrl ==
    <<"https://api.airtable.com/v0/",
      IF env.AIRTABLE_BASE_ID = Str("appCustom") THEN "appCustom" ELSE "appTll6JoqW04YvJs",
      "/", "F", "o", "r", "m", "%20", "S", "u", "b", "m", "i", "s", "s", "i", "o", "n", "s">>

\* request r has its one response, a JSON error of the given status and text
FailedWith(r, code, text) ==
    /\ pc[r] = "done"
    /\ Len(resp[r]) = 1
    /\ resp[r][1].status = code
    /\ resp[r][1].kind = "json"
    /\ resp[r][1].success = Bool(FALSE)
    /\ resp[r][1].error = Str(text)

\* request r has its one response, the success body
Succeeded(r) ==
    /\ pc[r] = "done"
    /\ Len(resp[r]) = 1
    /\ resp[r][1].status = 200
    /\ resp[r][1].kind = "json"
    /\ resp[r][1].success = Bool(TRUE)
    /\ resp[r][1].message = Str("Form submitted successfully")

\* the upstream answered request r with a 2xx status
Upstream2xx(r) ==
    upstream[r].state = "responded" /\ upstream[r].status \in 200..299

\* the upstream answered request r with another status
UpstreamNon2xx(r) ==
    upstream[r].state = "responded" /\ upstream[r].status \notin 200..299

BodySettled(r) == upstream[r].body.parse # "none"

\* the upstream body of request r parsed to something other than null
BodyParsed(r) == upstream[r].body.parse \in {"object", "string"}

\* the upstream error body of request r carries a non-empty error.message
HasUpstreamMessage(r) ==
    /\ upstream[r].body.parse = "object"
    /\ upstream[r].body.error.kind = "object"
    /\ upstream[r].body.error.message.t = "string"
    /\ upstream[r].body.error.message.v # ""

-----------------------------------------------------------------------------
\* C1 (as stated): the fields sent hold no key whose inbound value was "",
\* undefined or null, unless the value sent is a boolean -- for every key,
\* the defaulted and automation-tracking keys included.
C1_EveryKey ==
    \A r \in Reqs : \A i \in 1..Len(calls[r]) :
        \A k \in DOMAIN calls[r][i].body.fields :
            Empty(InboundValue(req[r].body, k))
                => TypeofBoolean(calls[r][i].body.fields[k])

\* C1 (amended): the same for every key but status and email_sequence_stage;
\* those two are sent as "completed" and "none" when nothing usable came in.
C1_NoEmptyField ==
    \A r \in Reqs : \A i \in 1..Len(calls[r]) :
        LET fields == calls[r][i].body.fields
        IN  /\ \A k \in DOMAIN fields \ {"status", "email_sequence_stage"} :
                Empty(InboundValue(req[r].body, k)) => TypeofBoolean(fields[k])
            /\ "email_sequence_stage" \in DOMAIN fields
            /\ fields["email_sequence_stage"] = Str("none")
            /\ "status" \in DOMAIN fields
            /\ Empty(InboundValue(req[r].body, "status"))
                => fields["status"] = Str("completed")

\* a call went out for a body whose email was "", without the email
C1_Witness ==
    \E r \in Reqs :
        /\ Len(calls[r]) = 1
        /\ req[r].body.f["email"] = Str("")
        /\ "email" \notin DOMAIN SentFields(r)

\* C2: import keys go out only under direction "import" (each iff present
\* and non-empty), export keys only under "export", none of the seven
\* under any other or absent direction.
C2_DirectionFields ==
    \A r \in Reqs : \A i \in 1..Len(calls[r]) :
        LET sent == DOMAIN calls[r][i].body.fields
            d == req[r].body.f["direction"]
            group == IF d = Str("import") THEN ImportKeys
                     ELSE IF d = Str("export") THEN ExportKeys
                     ELSE {}
        IN  /\ sent \cap (ImportKeys \cup ExportKeys) \subseteq group
            /\ \A k \in group :
                    k \in sent <=> ~Empty(req[r].body.f[k])
            /\ \A k \in sent \cap group :
                    calls[r][i].body.fields[k] = req[r].body.f[k]

\* an export submission carrying goods_location went out without it
C2_Witness ==
    \E r \in Reqs :
        /\ Len(calls[r]) = 1
        /\ req[r].body.f["direction"] = Str("export")
        /\ req[r].body.f["goods_location"] = Str("x")
        /\ "goods_location" \notin DOMAIN SentFields(r)

\* the dispatch of request r follows its record identifier
DispatchByIdentifier(r) ==
    LET rid == req[r].body.f["airtable_record_id"]
        call == calls[r][1]
    IN  /\ Len(calls[r]) = 1
        /\ (rid.t = "string" /\ rid.v # "")
                => call.method = "PATCH" /\ call.url = CollectionUrl \o <<"/", rid.v>>
        /\ Empty(rid) => call.method = "POST" /\ call.url = CollectionUrl

\* C3 (as stated): every accepted request with the credential configured
\* makes exactly one outbound call, PATCH to <collection>/<id> for a
\* non-empty identifier and POST to the collection otherwise.
C3_AlwaysOneCall ==
    \A r \in Reqs :
        Started(r) /\ Accepted(r) /\ KeyConfigured => DispatchByIdentifier(r)

\* C3 (amended): so it is for every such request whose body is not
\* undefined or null; a request without a body makes no outbound call.
C3_Dispatch ==
    \A r \in Reqs :
        Started(r) /\ Accepted(r) /\ KeyConfigured
            => IF BodyReadable(r) THEN DispatchByIdentifier(r) ELSE calls[r] = <<>>

\* an inbound POST carrying an identifier went out as a PATCH
C3_Witness ==
    \E r \in Reqs :
        /\ req[r].method = "POST"
        /\ req[r].body.f["airtable_record_id"] = Str("rec1")
        /\ Len(calls[r]) = 1
        /\ calls[r][1].method = "PATCH"

\* C4: a method outside OPTIONS, POST, PATCH gets 405 "Method not allowed",
\* with no body read, no credential check and no outbound call.
C4_MethodNotAllowed ==
    \A r \in Reqs :
        Started(r) /\ req[r].method \notin {"OPTIONS", "POST", "PATCH"}
            => /\ FailedWith(r, 405, "Method not allowed")
               /\ touched[r] = {}
               /\ calls[r] = <<>>
               /\ thrown[r] = ""

\* a DELETE without a body was answered
C4_Witness ==
    \E r \in Reqs :
        /\ req[r].method = "DELETE"
        /\ req[r].body.kind = "undefined"
        /\ pc[r] = "done"

\* C5: OPTIONS gets 200 with an empty body at once, whatever the body and
\* the configuration: no outbound call, no error path.
C5_Preflight ==
    \A r \in Reqs :
        Started(r) /\ req[r].method = "OPTIONS"
            => /\ pc[r] = "done"
               /\ Len(resp[r]) = 1
               /\ resp[r][1].status = 200
               /\ resp[r][1].kind = "empty"
               /\ touched[r] = {}
               /\ calls[r] = <<>>
               /\ thrown[r] = ""

\* an OPTIONS without a body was answered while the API key is not set
C5_Witness ==
    \E r \in Reqs :
        /\ req[r].method = "OPTIONS"
        /\ req[r].body.kind = "undefined"
        /\ ~KeyConfigured
        /\ pc[r] = "done"

\* C6: after a non-2xx upstream result the response is 500 with the
\* upstream error.message when present and non-empty, and with
\* "Failed to submit to AirTable" otherwise.
C6_UpstreamError ==
    \A r \in Reqs :
        UpstreamNon2xx(r) /\ BodySettled(r)
            => FailedWith(r, 500,
                    IF HasUpstreamMessage(r)
                    THEN upstream[r].body.error.message.v
                    ELSE "Failed to submit to AirTable")

\* C7 (as stated): the success response is produced exactly for a POST or
\* PATCH with the credential configured whose call ended 2xx, and then
\* recordId is the id of the upstream body.
C7_SuccessIff2xx ==
    \A r \in Reqs :
        pc[r] = "done"
            => /\ Succeeded(r) <=> (Accepted(r) /\ KeyConfigured /\ Upstream2xx(r))
               /\ Succeeded(r) => resp[r][1].recordId = upstream[r].body.id

\* C7 (amended): ... whose call ended 2xx with a body that parsed as JSON
\* to something other than null.
C7_Success ==
    \A r \in Reqs :
        pc[r] = "done"
            => /\ Succeeded(r) <=>
                    (Accepted(r) /\ KeyConfigured /\ Upstream2xx(r) /\ BodyParsed(r))
               /\ Succeeded(r) => resp[r][1].recordId = upstream[r].body.id

\* an upstream 201 with {"id": "rec123"} was answered with recordId rec123
C7_Witness ==
    \E r \in Reqs :
        /\ Succeeded(r)
        /\ upstream[r].status = 201
        /\ resp[r][1].recordId = Str("rec123")

\* C8 (as stated): with the API key missing every POST or PATCH ends in
\* 500 "AirTable API key not configured" and no outbound call.
C8_AlwaysKeyMessage ==
    \A r \in Reqs :
        Started(r) /\ Accepted(r) /\ ~KeyConfigured
            => /\ FailedWith(r, 500, "AirTable API key not configured")
               /\ calls[r] = <<>>

\* C8 (amended): so it is for every POST or PATCH whose body is not
\* undefined or null; without a body the 500 carries the TypeError of the
\* body read; in both cases no outbound call and nothing escapes.
C8_MissingKey ==
    \A r \in Reqs :
        Started(r) /\ Accepted(r) /\ ~KeyConfigured
            => /\ IF BodyReadable(r)
                  THEN FailedWith(r, 500, "AirTable API key not configured")
                  ELSE FailedWith(r, 500, thrown[r]) /\ thrown[r] # ""
               /\ calls[r] = <<>>

\* a POST with a body was refused while the API key is the empty string
C8_Witness ==
    \E r \in Reqs :
        /\ req[r].method = "POST"
        /\ req[r].body.kind = "object"
        /\ env.AIRTABLE_API_KEY = Str("")
        /\ FailedWith(r, 500, "AirTable API key not configured")

\* C9: every failure raised is answered 500 {success:false, error:<its
\* message>}; a request never has more than one response, has exactly one
\* once it is over, with status 200, 405 or 500, and no failure escapes.
C9_CatchAll ==
    \A r \in Reqs :
        /\ pc[r] # "escaped"
        /\ Len(resp[r]) <= 1
        /\ pc[r] = "done" <=> Len(resp[r]) = 1
        /\ \A i \in 1..Len(resp[r]) : resp[r][i].status \in {200, 405, 500}
        /\ thrown[r] # "" => FailedWith(r, 500, thrown[r])

\* an unparseable upstream error body was answered 500 with the parser's message
C9_Witness ==
    \E r \in Reqs :
        /\ UpstreamNon2xx(r)
        /\ upstream[r].body.parse = "error"
        /\ thrown[r] = SyntaxErrorMessage
        /\ FailedWith(r, 500, SyntaxErrorMessage)

\* C10: under any interleaving a request makes at most one outbound call
\* (none after an upstream failure), answers only after its own call has
\* settled, sends the fields of its own body, and answers from its own
\* upstream result: 200 with its own id exactly when that result is a parsed
\* 2xx, 500 otherwise, with its own upstream message when there is one.
C10_Isolation ==
    \A r \in Reqs :
        /\ Len(calls[r]) <= 1
        /\ Len(resp[r]) <= 1
        /\ (calls[r] # <<>> /\ resp[r] # <<>>)
                => /\ upstream[r].state = "rejected" \/ BodySettled(r)
                   /\ Succeeded(r) <=> (Upstream2xx(r) /\ BodyParsed(r))
                   /\ Succeeded(r) => resp[r][1].recordId = upstream[r].body.id
                   /\ ~Succeeded(r) => resp[r][1].status = 500
                   /\ (UpstreamNon2xx(r) /\ HasUpstreamMessage(r)) =>
                        FailedWith(r, 500, upstream[r].body.error.message.v)
        /\ calls[r] # <<>>
                => \A k \in DOMAIN SentFields(r) \cap
                            (VerbatimKeys \cup ImportKeys \cup ExportKeys) :
                        SentFields(r)[k] = req[r].body.f[k]
        /\ \A q \in Reqs :
                (pc[r] = "done" /\ pc[q] = "done"
                    /\ req[r] = req[q] /\ upstream[r] = upstream[q])
                => resp[r] = resp[q] /\ calls[r] = calls[q]

\* one request was refused by the upstream while another, accepted by the
\* upstream, is still reading its result
C10_Witness ==
    \E r \in Reqs, q \in Reqs :
        /\ r # q
        /\ Len(calls[r]) = 1
        /\ UpstreamNon2xx(r)
        /\ FailedWith(r, 500, "Invalid field")
        /\ pc[q] = "awaitJson"
        /\ Upstream2xx(q)
        /\ req[q].body # req[r].body

====
